---------------------------- MODULE Spec2Model ----------------------------
(***************************************************************************)
(* coreBOS web service client library (package corebosgowslib).            *)
(*                                                                         *)
(* The library keeps a session (cbConnection) and a map of the columns of  *)
(* the last query (queryResultColumns) per context (cbContext), and one    *)
(* package-level endpoint (cbURL).  corebosgowslib.go is the same code     *)
(* over a single package-level session; it is the model with one context.  *)
(*                                                                         *)
(* The remote service is the environment: every HTTP request is answered   *)
(* by a response the model draws from a finite set (a transport error, a   *)
(* body that is not JSON, or a JSON envelope).  Every public function is   *)
(* one action; the requests it sent, the answers it got and what it        *)
(* returned are recorded in the history variable call.                     *)
(*                                                                         *)
(* Spec       one context, every public function, calls one after another  *)
(* QuerySpec  DoQuery on every short text of letters, spaces, semicolons   *)
(* ContextSpec two contexts and SetURL called for one or the other         *)
(* RaceSpec   two goroutines in DoLogin on one context, a step for each    *)
(*            request and for each assignment to the session               *)
(***************************************************************************)
EXTENDS Integers, Sequences, FiniteSets, TLC

VARIABLES
    cbConnection,        \* context -> cbConnectionType
    queryResultColumns,  \* context -> map[int]string
    cbURL,               \* package-level endpoint
    ctxs,                \* the contexts that exist
    call,                \* history: the last completed call of a public function
    loggedIn,            \* history: contexts on which some DoLogin returned true
    loginCalls               \* caller -> its DoLogin in progress, step by step

vars == <<cbConnection, queryResultColumns, cbURL, ctxs, call, loggedIn, loginCalls>>

---------------------------------------------------------------------------
(* Values *)

\* Go's nil error.
Nil == "<nil>"

\* The value recorded for the results of a call that panicked.
Panic == "panic"

\* An empty Go map (also the empty slice): the function with empty domain.
EmptyMap == <<>>

\* The contexts GetCbContext can hand out; Init has the first one.
Contexts == {"c1", "c2"}

\* The goroutines that call DoLogin on one and the same context.
Callers == {"g1", "g2"}

\* cbConnectionType's zero value.
ZeroConnection ==
    [servertime |-> 0, expiretime |-> "", token |-> "", serviceuser |-> "",
     servicekey |-> "", sessionid |-> "", userid |-> ""]

Range(f) == {f[x] : x \in DOMAIN f}

---------------------------------------------------------------------------
(* The caller's inputs *)

Usernames == {"admin", "joe"}
AccessKeys == {"k1"}
BaseURLs == {"http://crm", "http://crm/"}
Queries == {"select * from Contacts", "select * from Contacts;  "}
FieldTypeLists == {<<"reference", "owner">>}
Modules == {"Contacts"}
Records == {"12x7"}
ValueMaps ==
    {[lastname |-> "A"],
     [assigned_user_id |-> "19x2"],
     [assigned_user_id |-> "", lastname |-> "A"]}
InvokeCalls ==
    {[method |-> "getVersion", params |-> EmptyMap, typeofcall |-> "post"],
     [method |-> "getRecordImages",
      params |-> [id |-> "12x7", sessionName |-> "forged"], typeofcall |-> "GET"]}
IdLists == {<<"12x8", "12x9">>}
Templates == {"login"}

---------------------------------------------------------------------------
(* The remote service's answers *)

\* A timeout and a refused connection both come back as the err of the
\* client's Get or Post; one of them stands for the class.
TransportErrors == {"Client.Timeout exceeded"}
DecodeErrors == {"invalid character '<'"}
ErrorObjects == {[code |-> "INVALID_SESSION", message |-> "bad session"]}

ChallengeResults ==
    {[serverTime |-> 1, expireTime |-> "e1", token |-> "t1"],
     [serverTime |-> 2, expireTime |-> "e2", token |-> "t2"]}
LoginResults ==
    {[sessionName |-> "s1", userId |-> "19x1"],
     [sessionName |-> "s2", userId |-> "19x2"]}
QueryResults ==
    {<<>>,
     <<[id |-> "1"]>>,
     <<[id |-> "1", name |-> "A"], [id |-> "2", name |-> "B"]>>}
ObjectResults == {[id |-> "12x7"]}
ListTypesResults == {[types |-> <<"Accounts", "Contacts">>]}
DeleteResults == {[status |-> "successful"], [status |-> "failed"]}
RelatedResults == {[records |-> <<[id |-> "12x8"]>>]}
SetRelatedResults == BOOLEAN
LoginPageResults == {"<html>"}

\* The answer of a request that was never sent.
NoResponse == [kind |-> "none"]

\* Answers that are no success envelope: the request failed in transport, the
\* body is no JSON, success is false with an error object, success is false
\* and the error object is missing.
Failures ==
    [kind : {"transport"}, err : TransportErrors]
    \cup [kind : {"decode"}, err : DecodeErrors]
    \cup {[kind |-> "json", dat |-> [success |-> FALSE, error |-> eo]] :
            eo \in ErrorObjects}
    \cup {[kind |-> "json", dat |-> [success |-> FALSE]]}

\* The answers to a request whose success envelopes carry one of results.
\* A success envelope carries a result of the shape the function asserts;
\* its type assertions on the result do not fail.
Responses(results) ==
    Failures
    \cup {[kind |-> "json", dat |-> [success |-> TRUE, result |-> r]] :
            r \in results}

---------------------------------------------------------------------------
(* Helpers of the library *)

\* strings.ToUpper on the call types the model feeds DoInvoke.
ToUpper(s) ==
    CASE s = "post" -> "POST"
      [] s = "get" -> "GET"
      [] OTHER -> s

\* strings.Trim(s, cutset): s without its leading and trailing characters
\* that are in cutset.
RECURSIVE TrimLeft(_, _)
TrimLeft(s, cutset) ==
    IF Len(s) > 0 /\ SubSeq(s, 1, 1) \in cutset
    THEN TrimLeft(SubSeq(s, 2, Len(s)), cutset)
    ELSE s

RECURSIVE TrimRight(_, _)
TrimRight(s, cutset) ==
    IF Len(s) > 0 /\ SubSeq(s, Len(s), Len(s)) \in cutset
    THEN TrimRight(SubSeq(s, 1, Len(s) - 1), cutset)
    ELSE s

\* Trim cutting at the end only.
TrimAtEndOnly(s, cutset) == TrimRight(s, cutset)

Trim(s, cutset) == TrimRight(TrimLeft(s, cutset), cutset)

\* json.Marshal of a []string and of a map[string]interface{} whose values
\* are strings: the JSON text, the keys of a map in sorted order.
Quote(s) == "\"" \o s \o "\""

RECURSIVE JoinStrings(_)
JoinStrings(l) ==
    IF l = <<>> THEN ""
    ELSE IF Len(l) = 1 THEN l[1]
    ELSE l[1] \o "," \o JoinStrings(Tail(l))

MarshalList(l) == "[" \o JoinStrings([i \in DOMAIN l |-> Quote(l[i])]) \o "]"

SortedKeys(m) ==
    SelectSeq(<<"assigned_user_id", "id", "lastname", "sessionName">>,
              LAMBDA k : k \in DOMAIN m)

MarshalMap(m) ==
    LET keys == SortedKeys(m)
    IN  "{" \o JoinStrings([i \in DOMAIN keys |->
                                Quote(keys[i]) \o ":" \o Quote(m[keys[i]])]) \o "}"

\* crypto/md5 (RFC 1321) and encoding/hex, as getMD5Hash uses them, computed
\* bit by bit for the texts of less than 56 bytes the model hashes.

\* The byte of a character (the characters the inputs are written with).
ByteOf ==
    "0" :> 48 @@ "1" :> 49 @@ "2" :> 50 @@ "3" :> 51 @@ "4" :> 52 @@ "5" :> 53 @@
    "6" :> 54 @@ "7" :> 55 @@ "8" :> 56 @@ "9" :> 57 @@ "a" :> 97 @@ "b" :> 98 @@
    "c" :> 99 @@ "d" :> 100 @@ "e" :> 101 @@ "f" :> 102 @@ "g" :> 103 @@ "h" :> 104 @@
    "i" :> 105 @@ "j" :> 106 @@ "k" :> 107 @@ "l" :> 108 @@ "m" :> 109 @@ "n" :> 110 @@
    "o" :> 111 @@ "p" :> 112 @@ "q" :> 113 @@ "r" :> 114 @@ "s" :> 115 @@ "t" :> 116 @@
    "u" :> 117 @@ "v" :> 118 @@ "w" :> 119 @@ "x" :> 120 @@ "y" :> 121 @@ "z" :> 122

\* The bytes of a text.
RECURSIVE BytesOf(_)
BytesOf(text) ==
    IF text = "" THEN <<>>
    ELSE <<ByteOf[SubSeq(text, 1, 1)]>> \o BytesOf(SubSeq(text, 2, Len(text)))

\* md5 works on 32-bit words; a word is the pair <<high, low>> of its halves
\* of 16 bits.
Half == 65536

\* a + b modulo 2^32
Add(a, b) ==
    LET lo == a[2] + b[2]
    IN  <<(a[1] + b[1] + (lo \div Half)) % Half, lo % Half>>

\* a + b + c + d modulo 2^32
Add4(a, b, c, d) ==
    LET lo == (a[2] + b[2]) + (c[2] + d[2])
    IN  <<((a[1] + b[1]) + (c[1] + d[1]) + (lo \div Half)) % Half, lo % Half>>

\* a rotated left by n bits, 0 < n < 32
RotateLeft(a, n) ==
    LET hi == IF n < 16 THEN a[1] ELSE a[2]
        lo == IF n < 16 THEN a[2] ELSE a[1]
        k == n % 16
    IN  <<((hi * 2^k) % Half) + (lo \div 2^(16 - k)),
          ((lo * 2^k) % Half) + (hi \div 2^(16 - k))>>

\* Bit i of a half.
Bit(h, i) == (h \div 2^i) % 2

\* The functions F, G, H and I of the four rounds, on one bit.
RoundFunction(round, b, c, d) ==
    CASE round = 0 -> b * c + (1 - b) * d
      [] round = 1 -> d * b + (1 - d) * c
      [] round = 2 -> (b + c + d) % 2
      [] round = 3 -> (c + (IF b + (1 - d) > 0 THEN 1 ELSE 0)) % 2

\* The round's function on three halves, bit by bit.
MixHalf(round, b, c, d) ==
    LET bit(i) == 2^i * RoundFunction(round, Bit(b, i), Bit(c, i), Bit(d, i))
        four(i) == (bit(i) + bit(i + 1)) + (bit(i + 2) + bit(i + 3))
    IN  (four(0) + four(4)) + (four(8) + four(12))

Mix(round, b, c, d) ==
    <<MixHalf(round, b[1], c[1], d[1]), MixHalf(round, b[2], c[2], d[2])>>

\* floor(2^32 * abs(sin(i))) for i = 1..64
SineTable ==
   <<
      <<55146, 42104>>, <<59591, 46934>>, <<9248, 28891>>, <<49597, 52974>>,
      <<62844, 4015>>, <<18311, 50730>>, <<43056, 17939>>, <<64838, 38145>>,
      <<27008, 39128>>, <<35652, 63407>>, <<65535, 23473>>, <<35164, 55230>>,
      <<27536, 4386>>, <<64920, 29075>>, <<42617, 17294>>, <<18868, 2081>>,
      <<63006, 9570>>, <<49216, 45888>>, <<9822, 23121>>, <<59830, 51114>>,
      <<54831, 4189>>, <<580, 5203>>, <<55457, 59009>>, <<59347, 64456>>,
      <<8673, 52710>>, <<49975, 2006>>, <<62677, 3463>>, <<17754, 5357>>,
      <<43491, 59653>>, <<64751, 41976>>, <<26479, 729>>, <<36138, 19594>>,
      <<65530, 14658>>, <<34673, 63105>>, <<28061, 24866>>, <<64997, 14348>>,
      <<42174, 59972>>, <<19422, 53161>>, <<63163, 19296>>, <<48831, 48240>>,
      <<10395, 32454>>, <<60065, 10234>>, <<54511, 12421>>, <<1160, 7429>>,
      <<55764, 53305>>, <<59099, 39397>>, <<8098, 31992>>, <<50348, 22117>>,
      <<62505, 8772>>, <<17194, 65431>>, <<43924, 9127>>, <<64659, 41017>>,
      <<25947, 22979>>, <<36620, 52370>>, <<65519, 62589>>, <<34180, 24017>>,
      <<28584, 32335>>, <<65068, 59104>>, <<41729, 17172>>, <<19976, 4513>>,
      <<63315, 32386>>, <<48442, 62005>>, <<10967, 53947>>, <<60294, 54161>>
   >>

ShiftTable ==
   <<
      7, 12, 17, 22, 7, 12, 17, 22, 7, 12, 17, 22, 7, 12, 17, 22,
      5, 9, 14, 20, 5, 9, 14, 20, 5, 9, 14, 20, 5, 9, 14, 20,
      4, 11, 16, 23, 4, 11, 16, 23, 4, 11, 16, 23, 4, 11, 16, 23,
      6, 10, 15, 21, 6, 10, 15, 21, 6, 10, 15, 21, 6, 10, 15, 21
   >>

\* The one 64-byte block of a message of less than 56 bytes: the message,
\* 0x80, zeros, and the length in bits as 8 bytes, lowest first.
PadBlock(bytes) ==
    LET n == Len(bytes)
        bits == 8 * n
    IN  [i \in 1..64 |->
            IF i <= n THEN bytes[i]
            ELSE IF i = n + 1 THEN 128
            ELSE IF i = 57 THEN bits % 256
            ELSE IF i = 58 THEN bits \div 256
            ELSE 0]

\* The 16 words of a block, each of 4 bytes, lowest first.
BlockWords(block) ==
    [g \in 0..15 |-> <<block[4*g + 3] + (256 * block[4*g + 4]),
                       block[4*g + 1] + (256 * block[4*g + 2])>>]

MD5Init ==
    [a |-> <<26437, 8961>>, b |-> <<61389, 43913>>,
     c |-> <<39098, 56574>>, d |-> <<4146, 21622>>]

\* Step i (0..63) on the block m.
MD5Step(s, m, i) ==
    LET round == i \div 16
        g == CASE round = 0 -> i
               [] round = 1 -> (5*i + 1) % 16
               [] round = 2 -> (3*i + 5) % 16
               [] round = 3 -> (7*i) % 16
        sum == Add4(Mix(round, s.b, s.c, s.d), s.a, SineTable[i + 1], m[g])
    IN  [a |-> s.d, d |-> s.c, c |-> s.b,
         b |-> Add(s.b, RotateLeft(sum, ShiftTable[i + 1]))]

\* The n steps from step i on, a quarter of them after the other.
RECURSIVE MD5Steps(_, _, _, _)
MD5Steps(s, m, i, n) ==
    IF n = 1 THEN MD5Step(s, m, i)
    ELSE LET q == n \div 4
             s1 == MD5Steps(s, m, i, q)
             s2 == MD5Steps(s1, m, i + q, q)
             s3 == MD5Steps(s2, m, i + 2*q, q)
         IN  \* the comparisons have TLC compute the quarters in their order
             IF s1 = s1 /\ s2 = s2 /\ s3 = s3
             THEN MD5Steps(s3, m, i + 3*q, q) ELSE s

HexDigits == "0123456789abcdef"

\* hex.EncodeToString of a byte: its high digit, then its low digit.
HexOfByte(byte) ==
    SubSeq(HexDigits, (byte \div 16) + 1, (byte \div 16) + 1)
    \o SubSeq(HexDigits, (byte % 16) + 1, (byte % 16) + 1)

\* The 4 bytes of a word, lowest first.
HexOfWord(w) ==
    HexOfByte(w[2] % 256) \o HexOfByte(w[2] \div 256)
    \o HexOfByte(w[1] % 256) \o HexOfByte(w[1] \div 256)

MD5Sum(text) ==
    LET m == BlockWords(PadBlock(BytesOf(text)))
        s == MD5Steps(MD5Init, m, 0, 64)
    IN  HexOfWord(Add(MD5Init.a, s.a)) \o HexOfWord(Add(MD5Init.b, s.b))
        \o HexOfWord(Add(MD5Init.c, s.c)) \o HexOfWord(Add(MD5Init.d, s.d))

\* The digests of the texts DoLogin can hash, computed once.
MD5Table ==
    {<<t \o k, MD5Sum(t \o k)>> :
        t \in {""} \cup {r.token : r \in ChallengeResults}, k \in AccessKeys}

\* getMD5Hash: hex.EncodeToString of the md5 sum of text.
getMD5Hash(text) ==
    IF \E p \in MD5Table : p[1] = text
    THEN (CHOOSE p \in MD5Table : p[1] = text)[2]
    ELSE MD5Sum(text)

\* dat["success"] == true
Success(dat) == "success" \in DOMAIN dat /\ dat.success = TRUE

\* docbCall: the request sent (POST with a form body, or GET with the
\* parameters in the query string) and what comes back: (false, empty, err)
\* for a transport error, (true, dat, e) with the decoder's error otherwise.
docbCall(typeofcall, params, resp) ==
    LET req == [method |-> IF ToUpper(typeofcall) = "POST" THEN "POST" ELSE "GET",
                url |-> cbURL,
                params |-> params]
    IN  CASE resp.kind = "transport" ->
               [req |-> req, ok |-> FALSE, dat |-> EmptyMap, e |-> resp.err]
          [] resp.kind = "decode" ->
               [req |-> req, ok |-> TRUE, dat |-> EmptyMap, e |-> resp.err]
          [] OTHER ->
               [req |-> req, ok |-> TRUE, dat |-> resp.dat, e |-> Nil]

\* wserr with the separator of code and message forgotten.
wserrNoSeparator(dat, e, zero) ==
    IF e # Nil
    THEN [ret |-> zero, err |-> e, panic |-> FALSE]
    ELSE IF "error" \in DOMAIN dat
         THEN [ret |-> zero, err |-> dat.error.code \o dat.error.message,
               panic |-> FALSE]
         ELSE [ret |-> Panic, err |-> Panic, panic |-> TRUE]

\* The tail every public function ends with when the call did not succeed:
\*   if e == nil { wserr := dat["error"].(map...); return zero, errors.New(code + ": " + message) }
\*   return zero, e
\* The type assertion panics when the envelope has no error object.
wserr(dat, e, zero) ==
    IF e # Nil
    THEN [ret |-> zero, err |-> e, panic |-> FALSE]
    ELSE IF "error" \in DOMAIN dat
         THEN [ret |-> zero,
               err |-> dat.error.code \o ": " \o dat.error.message,
               panic |-> FALSE]
         ELSE [ret |-> Panic, err |-> Panic, panic |-> TRUE]

\* What a public function did: the session and columns it leaves, the
\* requests it sent with their answers, and what it returned.
Outcome(conn, cols, reqs, resps, r) ==
    [conn |-> conn, cols |-> cols, reqs |-> reqs, resps |-> resps,
     ret |-> r.ret, err |-> r.err, panic |-> r.panic]

Returns(ret, err) == [ret |-> ret, err |-> err, panic |-> FALSE]

---------------------------------------------------------------------------
(* Session manager *)

\* doChallenge storing the token in the session id as well.
doChallengeSetsSession(conn, username, resp) ==
    LET c == docbCall("GET", [operation |-> "getchallenge", username |-> username], resp)
    IN  IF c.e = Nil /\ Success(c.dat)
        THEN [conn |-> [conn EXCEPT !.servertime = c.dat.result.serverTime,
                                    !.expiretime = c.dat.result.expireTime,
                                    !.token = c.dat.result.token,
                                    !.sessionid = c.dat.result.token],
              ok |-> TRUE, err |-> Nil, req |-> c.req]
        ELSE [conn |-> conn, ok |-> FALSE, err |-> c.e, req |-> c.req]

\* doChallenge returning the error of the envelope, as the public functions
\* do, when success is false.
doChallengeSurfacesError(conn, username, resp) ==
    LET c == docbCall("GET", [operation |-> "getchallenge", username |-> username], resp)
    IN  IF c.e = Nil /\ Success(c.dat)
        THEN [conn |-> [conn EXCEPT !.servertime = c.dat.result.serverTime,
                                    !.expiretime = c.dat.result.expireTime,
                                    !.token = c.dat.result.token],
              ok |-> TRUE, err |-> Nil, req |-> c.req]
        ELSE IF c.e = Nil /\ "error" \in DOMAIN c.dat
             THEN [conn |-> conn, ok |-> FALSE,
                   err |-> c.dat.error.code \o ": " \o c.dat.error.message,
                   req |-> c.req]
             ELSE [conn |-> conn, ok |-> FALSE, err |-> c.e, req |-> c.req]

\* doChallenge: on success stores serverTime, expireTime and token.
doChallenge(conn, username, resp) ==
    LET c == docbCall("GET", [operation |-> "getchallenge", username |-> username], resp)
    IN  IF c.e = Nil /\ Success(c.dat)
        THEN [conn |-> [conn EXCEPT !.servertime = c.dat.result.serverTime,
                                    !.expiretime = c.dat.result.expireTime,
                                    !.token = c.dat.result.token],
              ok |-> TRUE, err |-> Nil, req |-> c.req]
        ELSE [conn |-> conn, ok |-> FALSE, err |-> c.e, req |-> c.req]

\* The accessKey with the two modes taken for each other.
accessKeyModesSwapped(token, userAccesskey, withpassword) ==
    IF withpassword THEN getMD5Hash(token \o userAccesskey)
    ELSE token \o userAccesskey

\* The accessKey DoLogin sends.
accessKey(token, userAccesskey, withpassword) ==
    IF withpassword THEN token \o userAccesskey
    ELSE getMD5Hash(token \o userAccesskey)

\* DoLogin going on to the login request although the challenge failed.
DoLoginIgnoresChallenge(conn, cols, username, userAccesskey, withpassword, resp1, resp2) ==
    LET dc == doChallenge(conn, username, resp1)
        v == [operation |-> "login", username |-> username,
              accessKey |-> accessKey(dc.conn.token, userAccesskey, withpassword)]
        req == [method |-> "POST", url |-> cbURL, params |-> v]
    IN  IF ~dc.ok
        THEN Outcome(dc.conn, cols, <<dc.req, req>>, <<resp1, resp2>>,
                     Returns(FALSE, dc.err))
        ELSE LET c == docbCall("POST", v, resp2)
             IN  IF c.e = Nil /\ Success(c.dat)
                 THEN Outcome([dc.conn EXCEPT !.serviceuser = username,
                                              !.servicekey = userAccesskey,
                                              !.sessionid = c.dat.result.sessionName,
                                              !.userid = c.dat.result.userId],
                              cols, <<dc.req, c.req>>, <<resp1, resp2>>,
                              Returns(TRUE, Nil))
                 ELSE Outcome(dc.conn, cols, <<dc.req, c.req>>, <<resp1, resp2>>,
                              wserr(c.dat, c.e, FALSE))

\* DoLogin deriving the accessKey from the token the session held before
\* the challenge.
DoLoginStaleToken(conn, cols, username, userAccesskey, withpassword, resp1, resp2) ==
    LET dc == doChallenge(conn, username, resp1)
        v == [operation |-> "login", username |-> username,
              accessKey |-> accessKey(conn.token, userAccesskey, withpassword)]
        c == docbCall("POST", v, resp2)
    IN  IF ~dc.ok
        THEN Outcome(dc.conn, cols, <<dc.req>>, <<resp1>>, Returns(FALSE, dc.err))
        ELSE IF c.e = Nil /\ Success(c.dat)
             THEN Outcome([dc.conn EXCEPT !.serviceuser = username,
                                          !.servicekey = userAccesskey,
                                          !.sessionid = c.dat.result.sessionName,
                                          !.userid = c.dat.result.userId],
                          cols, <<dc.req, c.req>>, <<resp1, resp2>>,
                          Returns(TRUE, Nil))
             ELSE Outcome(dc.conn, cols, <<dc.req, c.req>>, <<resp1, resp2>>,
                          wserr(c.dat, c.e, FALSE))

\* DoLogin: the challenge, then the login request with the stored token.
\* resp1 answers the getchallenge request, resp2 the login request.
DoLogin(conn, cols, username, userAccesskey, withpassword, resp1, resp2) ==
    LET dc == doChallenge(conn, username, resp1)
        v == [operation |-> "login", username |-> username,
              accessKey |-> accessKey(dc.conn.token, userAccesskey, withpassword)]
        c == docbCall("POST", v, resp2)
    IN  IF ~dc.ok
        THEN Outcome(dc.conn, cols, <<dc.req>>, <<resp1>>, Returns(FALSE, dc.err))
        ELSE IF c.e = Nil /\ Success(c.dat)
             THEN Outcome([dc.conn EXCEPT !.serviceuser = username,
                                          !.servicekey = userAccesskey,
                                          !.sessionid = c.dat.result.sessionName,
                                          !.userid = c.dat.result.userId],
                          cols, <<dc.req, c.req>>, <<resp1, resp2>>,
                          Returns(TRUE, Nil))
             ELSE Outcome(dc.conn, cols, <<dc.req, c.req>>, <<resp1, resp2>>,
                          wserr(c.dat, c.e, FALSE))

\* DoLogout sending its request a second time after a transport error.
DoLogoutRetries(conn, cols, resp) ==
    LET c == docbCall("POST", [operation |-> "logout", sessionName |-> conn.sessionid], resp)
    IN  IF c.e = Nil /\ Success(c.dat)
        THEN Outcome(conn, cols, <<c.req>>, <<resp>>, Returns(TRUE, Nil))
        ELSE IF ~c.ok
             THEN Outcome(conn, cols, <<c.req, c.req>>, <<resp, resp>>,
                          wserr(c.dat, c.e, FALSE))
             ELSE Outcome(conn, cols, <<c.req>>, <<resp>>, wserr(c.dat, c.e, FALSE))

\* DoLogout emptying the session when the logout succeeded.
DoLogoutClearsSession(conn, cols, resp) ==
    LET c == docbCall("POST", [operation |-> "logout", sessionName |-> conn.sessionid], resp)
    IN  IF c.e = Nil /\ Success(c.dat)
        THEN Outcome(ZeroConnection, cols, <<c.req>>, <<resp>>, Returns(TRUE, Nil))
        ELSE Outcome(conn, cols, <<c.req>>, <<resp>>, wserr(c.dat, c.e, FALSE))

\* DoLogout: the session is left as it is.
DoLogout(conn, cols, resp) ==
    LET c == docbCall("POST", [operation |-> "logout", sessionName |-> conn.sessionid], resp)
    IN  IF c.e = Nil /\ Success(c.dat)
        THEN Outcome(conn, cols, <<c.req>>, <<resp>>, Returns(TRUE, Nil))
        ELSE Outcome(conn, cols, <<c.req>>, <<resp>>, wserr(c.dat, c.e, FALSE))

---------------------------------------------------------------------------
(* Domain operations *)

\* The rows of a query's answer: of its result list when it is a success
\* envelope, none otherwise.
QueryRows(resp) ==
    IF resp.kind = "json" /\ Success(resp.dat) THEN resp.dat.result ELSE <<>>

\* The orders in which Go's range may visit the keys of a map.
RangeOrders(m) ==
    {o \in [1..Cardinality(DOMAIN m) -> DOMAIN m] : Range(o) = DOMAIN m}

\* DoQuery: the query is trimmed and ended with one ";".  On success the
\* keys of the first row are written over the entries 0, 1, ... of the
\* column map, in the order the range visits them (order); a result with no
\* rows replaces the map by an empty one.
DoQuery(conn, cols, query, resp, order) ==
    LET q == Trim(query, {" ", ";"}) \o ";"
        c == docbCall("GET", [operation |-> "query", sessionName |-> conn.sessionid,
                              query |-> q], resp)
        written == [i \in (DOMAIN cols) \cup (0..(Len(order) - 1)) |->
                      IF i < Len(order) THEN order[i + 1] ELSE cols[i]]
    IN  IF c.e = Nil /\ Success(c.dat)
        THEN Outcome(conn,
                     IF Len(c.dat.result) > 0 THEN written ELSE EmptyMap,
                     <<c.req>>, <<resp>>, Returns(c.dat.result, Nil))
        ELSE Outcome(conn, cols, <<c.req>>, <<resp>>, wserr(c.dat, c.e, EmptyMap))

\* GetResultColumns returns the column map as it is.
GetResultColumns(c) == queryResultColumns[c]

DoListTypes(conn, cols, fieldTypeList, resp) ==
    LET c == docbCall("GET", [operation |-> "listtypes", sessionName |-> conn.sessionid,
                              fieldTypeList |-> MarshalList(fieldTypeList)], resp)
    IN  IF c.e = Nil /\ Success(c.dat)
        THEN Outcome(conn, cols, <<c.req>>, <<resp>>,
                     Returns([mname \in Range(c.dat.result.types) |-> mname], Nil))
        ELSE Outcome(conn, cols, <<c.req>>, <<resp>>, wserr(c.dat, c.e, EmptyMap))

DoDescribe(conn, cols, module, resp) ==
    LET c == docbCall("GET", [operation |-> "describe", sessionName |-> conn.sessionid,
                              elementType |-> module], resp)
    IN  IF c.e = Nil /\ Success(c.dat)
        THEN Outcome(conn, cols, <<c.req>>, <<resp>>, Returns(c.dat.result, Nil))
        ELSE Outcome(conn, cols, <<c.req>>, <<resp>>, wserr(c.dat, c.e, EmptyMap))

DoRetrieve(conn, cols, record, resp) ==
    LET c == docbCall("GET", [operation |-> "retrieve", sessionName |-> conn.sessionid,
                              id |-> record], resp)
    IN  IF c.e = Nil /\ Success(c.dat)
        THEN Outcome(conn, cols, <<c.req>>, <<resp>>, Returns(c.dat.result, Nil))
        ELSE Outcome(conn, cols, <<c.req>>, <<resp>>, wserr(c.dat, c.e, EmptyMap))

\* assignUser taking an empty assigned_user_id for a missing one.
assignUserWhenEmpty(valuemap, userid) ==
    IF "assigned_user_id" \in DOMAIN valuemap /\ valuemap["assigned_user_id"] # ""
    THEN valuemap
    ELSE [k \in (DOMAIN valuemap) \cup {"assigned_user_id"} |->
            IF k = "assigned_user_id" THEN userid ELSE valuemap[k]]

\* Assign record to logged in user if not specified:
\*   _, exists := valuemap["assigned_user_id"]
\*   if exists == false { valuemap["assigned_user_id"] = userid }
assignUser(valuemap, userid) ==
    IF "assigned_user_id" \in DOMAIN valuemap
    THEN valuemap
    ELSE [k \in (DOMAIN valuemap) \cup {"assigned_user_id"} |->
            IF k = "assigned_user_id" THEN userid ELSE valuemap[k]]

\* DoCreate, DoUpdate and DoRevise differ in the operation name only.
writeRecord(operation, conn, cols, module, valuemap, resp) ==
    LET vals == MarshalMap(assignUser(valuemap, conn.userid))
        c == docbCall("POST", [operation |-> operation, sessionName |-> conn.sessionid,
                               elementType |-> module, element |-> vals], resp)
    IN  IF c.e = Nil /\ Success(c.dat)
        THEN Outcome(conn, cols, <<c.req>>, <<resp>>, Returns(c.dat.result, Nil))
        ELSE Outcome(conn, cols, <<c.req>>, <<resp>>, wserr(c.dat, c.e, EmptyMap))

DoCreate(conn, cols, module, valuemap, resp) ==
    writeRecord("create", conn, cols, module, valuemap, resp)

DoUpdate(conn, cols, module, valuemap, resp) ==
    writeRecord("update", conn, cols, module, valuemap, resp)

DoRevise(conn, cols, module, valuemap, resp) ==
    writeRecord("revise", conn, cols, module, valuemap, resp)

\* DoDelete not looking at result.status.
DoDeleteIgnoresStatus(conn, cols, record, resp) ==
    LET c == docbCall("POST", [operation |-> "delete", sessionName |-> conn.sessionid,
                               id |-> record], resp)
    IN  IF c.e = Nil /\ Success(c.dat)
        THEN Outcome(conn, cols, <<c.req>>, <<resp>>, Returns(TRUE, Nil))
        ELSE Outcome(conn, cols, <<c.req>>, <<resp>>, wserr(c.dat, c.e, FALSE))

\* DoDelete: success needs result.status == "successful"; another status is
\* the local error "Unexpected DELETE error".
DoDelete(conn, cols, record, resp) ==
    LET c == docbCall("POST", [operation |-> "delete", sessionName |-> conn.sessionid,
                               id |-> record], resp)
    IN  IF c.e = Nil /\ Success(c.dat)
        THEN IF c.dat.result.status = "successful"
             THEN Outcome(conn, cols, <<c.req>>, <<resp>>, Returns(TRUE, Nil))
             ELSE Outcome(conn, cols, <<c.req>>, <<resp>>,
                          Returns(FALSE, "Unexpected DELETE error"))
        ELSE Outcome(conn, cols, <<c.req>>, <<resp>>, wserr(c.dat, c.e, FALSE))

\* DoInvoke: a parameter of the caller is set only where the values so far
\* have nothing or "" under its name (v.Get(idx) == "").
DoInvoke(conn, cols, method, params, typeofcall, resp) ==
    LET base == [operation |-> method, sessionName |-> conn.sessionid]
        v == [k \in (DOMAIN base) \cup (DOMAIN params) |->
                IF k \in DOMAIN base /\ (base[k] # "" \/ k \notin DOMAIN params)
                THEN base[k] ELSE params[k]]
        c == docbCall(typeofcall, v, resp)
    IN  IF c.e = Nil /\ Success(c.dat)
        THEN Outcome(conn, cols, <<c.req>>, <<resp>>, Returns(c.dat.result, Nil))
        ELSE Outcome(conn, cols, <<c.req>>, <<resp>>, wserr(c.dat, c.e, EmptyMap))

DoGetRelatedRecords(conn, cols, record, module, relatedModule, queryParameters, resp) ==
    LET c == docbCall("POST", [operation |-> "getRelatedRecords",
                               sessionName |-> conn.sessionid, id |-> record,
                               module |-> module, relatedModule |-> relatedModule,
                               queryParameters |-> MarshalMap(queryParameters)], resp)
    IN  IF c.e = Nil /\ Success(c.dat)
        THEN Outcome(conn, cols, <<c.req>>, <<resp>>, Returns(c.dat.result.records, Nil))
        ELSE Outcome(conn, cols, <<c.req>>, <<resp>>, wserr(c.dat, c.e, EmptyMap))

DoSetRelated(conn, cols, relateThisID, withTheseIds, resp) ==
    LET c == docbCall("POST", [operation |-> "SetRelation", sessionName |-> conn.sessionid,
                               relate_this_id |-> relateThisID,
                               with_these_ids |-> MarshalList(withTheseIds)], resp)
    IN  IF c.e = Nil /\ Success(c.dat)
        THEN Outcome(conn, cols, <<c.req>>, <<resp>>, Returns(c.dat.result, Nil))
        ELSE Outcome(conn, cols, <<c.req>>, <<resp>>, wserr(c.dat, c.e, FALSE))

DoLoginPage(conn, cols, template, language, csrf, resp) ==
    LET c == docbCall("GET", [operation |-> "getLoginPage", sessionName |-> conn.sessionid,
                              template |-> template, language |-> language,
                              csrf |-> csrf], resp)
    IN  IF c.e = Nil /\ Success(c.dat)
        THEN Outcome(conn, cols, <<c.req>>, <<resp>>, Returns(c.dat.result, Nil))
        ELSE Outcome(conn, cols, <<c.req>>, <<resp>>, wserr(c.dat, c.e, ""))

\* SetURL: the endpoint is cburl and "/webservice.php", with one "/" between.
SetURL(cburl) ==
    IF SubSeq(cburl, Len(cburl), Len(cburl)) = "/"
    THEN cburl \o "webservice.php"
    ELSE cburl \o "/webservice.php"

---------------------------------------------------------------------------
(* Actions: one per public function *)

\* A caller that has not called DoLogin.
IdleLogin ==
    [pc |-> "idle", username |-> "", userAccesskey |-> "", withpassword |-> FALSE,
     challenge |-> EmptyMap, login |-> EmptyMap, stored |-> 0, sent |-> "",
     ret |-> Nil, err |-> Nil, panic |-> FALSE]

NoCall ==
    [op |-> "none", ctx |-> "c1", args |-> EmptyMap, pre |-> ZeroConnection,
     reqs |-> <<>>, resps |-> <<>>, ret |-> Nil, err |-> Nil, panic |-> FALSE]

Init ==
    /\ cbConnection = [c \in Contexts |-> ZeroConnection]
    /\ queryResultColumns = [c \in Contexts |-> EmptyMap]
    /\ cbURL = "/webservice.php"
    /\ ctxs = {"c1"}
    /\ call = NoCall
    /\ loggedIn = {}
    /\ loginCalls = [g \in Callers |-> IdleLogin]

\* The public function op, called on context c with args, did out.
Finish(c, op, args, out) ==
    /\ cbConnection' = [cbConnection EXCEPT ![c] = out.conn]
    /\ queryResultColumns' = [queryResultColumns EXCEPT ![c] = out.cols]
    /\ call' = [op |-> op, ctx |-> c, args |-> args, pre |-> cbConnection[c],
                reqs |-> out.reqs, resps |-> out.resps,
                ret |-> out.ret, err |-> out.err, panic |-> out.panic]
    /\ loggedIn' = IF op = "DoLogin" /\ ~out.panic /\ out.ret
                   THEN loggedIn \cup {c} ELSE loggedIn
    /\ UNCHANGED <<cbURL, ctxs, loginCalls>>

CallDoLogin ==
    \E c \in ctxs, username \in Usernames, userAccesskey \in AccessKeys,
       withpassword \in BOOLEAN, resp1 \in Responses(ChallengeResults) :
        \E resp2 \in IF doChallenge(cbConnection[c], username, resp1).ok
                     THEN Responses(LoginResults) ELSE {NoResponse} :
            Finish(c, "DoLogin",
                   [username |-> username, userAccesskey |-> userAccesskey,
                    withpassword |-> withpassword],
                   DoLogin(cbConnection[c], queryResultColumns[c], username,
                           userAccesskey, withpassword, resp1, resp2))

CallDoLogout ==
    \E c \in ctxs, resp \in Responses({"ok"}) :
        Finish(c, "DoLogout", EmptyMap,
               DoLogout(cbConnection[c], queryResultColumns[c], resp))

CallDoQuery ==
    \E c \in ctxs, query \in Queries, resp \in Responses(QueryResults) :
        \E order \in IF Len(QueryRows(resp)) > 0
                     THEN RangeOrders(QueryRows(resp)[1]) ELSE {<<>>} :
            Finish(c, "DoQuery", [query |-> query],
                   DoQuery(cbConnection[c], queryResultColumns[c], query, resp, order))

CallDoListTypes ==
    \E c \in ctxs, fieldTypeList \in FieldTypeLists, resp \in Responses(ListTypesResults) :
        Finish(c, "DoListTypes", [fieldTypeList |-> fieldTypeList],
               DoListTypes(cbConnection[c], queryResultColumns[c], fieldTypeList, resp))

CallDoDescribe ==
    \E c \in ctxs, module \in Modules, resp \in Responses(ObjectResults) :
        Finish(c, "DoDescribe", [module |-> module],
               DoDescribe(cbConnection[c], queryResultColumns[c], module, resp))

CallDoRetrieve ==
    \E c \in ctxs, record \in Records, resp \in Responses(ObjectResults) :
        Finish(c, "DoRetrieve", [record |-> record],
               DoRetrieve(cbConnection[c], queryResultColumns[c], record, resp))

CallDoCreate ==
    \E c \in ctxs, module \in Modules, valuemap \in ValueMaps,
       resp \in Responses(ObjectResults) :
        Finish(c, "DoCreate", [module |-> module, valuemap |-> valuemap],
               DoCreate(cbConnection[c], queryResultColumns[c], module, valuemap, resp))

CallDoUpdate ==
    \E c \in ctxs, module \in Modules, valuemap \in ValueMaps,
       resp \in Responses(ObjectResults) :
        Finish(c, "DoUpdate", [module |-> module, valuemap |-> valuemap],
               DoUpdate(cbConnection[c], queryResultColumns[c], module, valuemap, resp))

CallDoRevise ==
    \E c \in ctxs, module \in Modules, valuemap \in ValueMaps,
       resp \in Responses(ObjectResults) :
        Finish(c, "DoRevise", [module |-> module, valuemap |-> valuemap],
               DoRevise(cbConnection[c], queryResultColumns[c], module, valuemap, resp))

CallDoDelete ==
    \E c \in ctxs, record \in Records, resp \in Responses(DeleteResults) :
        Finish(c, "DoDelete", [record |-> record],
               DoDelete(cbConnection[c], queryResultColumns[c], record, resp))

CallDoInvoke ==
    \E c \in ctxs, in \in InvokeCalls, resp \in Responses(ObjectResults) :
        Finish(c, "DoInvoke", in,
               DoInvoke(cbConnection[c], queryResultColumns[c], in.method, in.params,
                        in.typeofcall, resp))

CallDoGetRelatedRecords ==
    \E c \in ctxs, record \in Records, module \in Modules,
       resp \in Responses(RelatedResults) :
        Finish(c, "DoGetRelatedRecords", [record |-> record, module |-> module],
               DoGetRelatedRecords(cbConnection[c], queryResultColumns[c], record,
                                   module, module, EmptyMap, resp))

CallDoSetRelated ==
    \E c \in ctxs, relateThisID \in Records, withTheseIds \in IdLists,
       resp \in Responses(SetRelatedResults) :
        Finish(c, "DoSetRelated",
               [relateThisID |-> relateThisID, withTheseIds |-> withTheseIds],
               DoSetRelated(cbConnection[c], queryResultColumns[c], relateThisID,
                            withTheseIds, resp))

CallDoLoginPage ==
    \E c \in ctxs, template \in Templates, resp \in Responses(LoginPageResults) :
        Finish(c, "DoLoginPage", [template |-> template],
               DoLoginPage(cbConnection[c], queryResultColumns[c], template,
                           "en", "csrf", resp))

\* SetURL changes the package's endpoint and nothing else.
CallSetURL ==
    \E cburl \in BaseURLs :
        /\ cbURL' = SetURL(cburl)
        /\ UNCHANGED <<cbConnection, queryResultColumns, ctxs, call, loggedIn, loginCalls>>

Next ==
    \/ CallSetURL
    \/ CallDoLogin
    \/ CallDoLogout
    \/ CallDoQuery
    \/ CallDoListTypes
    \/ CallDoDescribe
    \/ CallDoRetrieve
    \/ CallDoCreate
    \/ CallDoUpdate
    \/ CallDoRevise
    \/ CallDoDelete
    \/ CallDoInvoke
    \/ CallDoGetRelatedRecords
    \/ CallDoSetRelated
    \/ CallDoLoginPage

Spec == Init /\ [][Next]_vars

---------------------------------------------------------------------------
(* DoQuery on every short query text *)

\* The query texts: a letter, the space and the semicolon, in every order.
QueryAlphabet == {"a", " ", ";"}
MaxQueryLen == 4

RECURSIVE Texts(_)
Texts(n) ==
    IF n = 0 THEN {""}
    ELSE LET shorter == Texts(n - 1)
         IN  shorter \cup {t \o ch : t \in shorter, ch \in QueryAlphabet}

QueryTexts == Texts(MaxQueryLen)

CallDoQueryText ==
    \E c \in ctxs, query \in QueryTexts, resp \in Responses({<<>>}) :
        Finish(c, "DoQuery", [query |-> query],
               DoQuery(cbConnection[c], queryResultColumns[c], query, resp, <<>>))

QuerySpec == Init /\ [][CallDoQueryText]_vars

---------------------------------------------------------------------------
(* Two contexts side by side *)

\* The applications the owners of two contexts connect to.
Targets == {"http://crm", "http://erp"}

\* One value of a set of inputs or answers.
OneOf(S) == {CHOOSE x \in S : TRUE}

\* GetCbContext hands out a new context: an empty session, no columns.
CallGetCbContext ==
    \E c \in Contexts \ ctxs :
        /\ ctxs' = ctxs \cup {c}
        /\ call' = [NoCall EXCEPT !.op = "GetCbContext", !.ctx = c]
        /\ UNCHANGED <<cbConnection, queryResultColumns, cbURL, loggedIn, loginCalls>>

\* The owner of context c calls SetURL for the application c is to talk to.
CallSetURLFor ==
    \E c \in ctxs, cburl \in Targets :
        /\ cbURL' = SetURL(cburl)
        /\ call' = [NoCall EXCEPT !.op = "SetURL", !.ctx = c,
                                  !.args = [cburl |-> cburl],
                                  !.pre = cbConnection[c]]
        /\ UNCHANGED <<cbConnection, queryResultColumns, ctxs, loggedIn, loginCalls>>

ContextDoLogin ==
    \E c \in ctxs, username \in OneOf(Usernames), userAccesskey \in AccessKeys,
       resp1 \in Responses(OneOf(ChallengeResults)) :
        \E resp2 \in IF doChallenge(cbConnection[c], username, resp1).ok
                     THEN Responses(OneOf(LoginResults)) ELSE {NoResponse} :
            Finish(c, "DoLogin",
                   [username |-> username, userAccesskey |-> userAccesskey,
                    withpassword |-> FALSE],
                   DoLogin(cbConnection[c], queryResultColumns[c], username,
                           userAccesskey, FALSE, resp1, resp2))

ContextDoQuery ==
    \E c \in ctxs, query \in OneOf(Queries),
       resp \in Responses({<<[id |-> "1"]>>}) :
        Finish(c, "DoQuery", [query |-> query],
               DoQuery(cbConnection[c], queryResultColumns[c], query, resp,
                       IF Len(QueryRows(resp)) > 0 THEN <<"id">> ELSE <<>>))

ContextNext ==
    \/ CallGetCbContext
    \/ CallSetURLFor
    \/ ContextDoLogin
    \/ ContextDoQuery

ContextSpec == Init /\ [][ContextNext]_vars

\* The endpoint the requests of context c are sent to: docbCall posts to and
\* gets from the package's cbURL, whatever the context.
Endpoint(c) == cbURL

---------------------------------------------------------------------------
(* Two DoLogin calls on one context, statement by statement *)

\* The context the callers share.
SharedContext == "c1"

\* The session fields doChallenge and DoLogin assign, in the order of their
\* assignments, and the value each gets.
ChallengeFields == <<"servertime", "expiretime", "token">>
LoginFields == <<"serviceuser", "servicekey", "sessionid", "userid">>

ChallengeValue(l, field) ==
    CASE field = "servertime" -> l.challenge.serverTime
      [] field = "expiretime" -> l.challenge.expireTime
      [] field = "token" -> l.challenge.token

LoginValue(l, field) ==
    CASE field = "serviceuser" -> l.username
      [] field = "servicekey" -> l.userAccesskey
      [] field = "sessionid" -> l.login.sessionName
      [] field = "userid" -> l.login.userId

\* Caller g does a step that leaves it as l and the shared session as conn.
LoginStep(g, l, conn) ==
    /\ loginCalls' = [loginCalls EXCEPT ![g] = l]
    /\ cbConnection' = [cbConnection EXCEPT ![SharedContext] = conn]
    /\ UNCHANGED <<queryResultColumns, cbURL, ctxs, call, loggedIn>>

\* g calls DoLogin.
RaceCallDoLogin ==
    \E g \in Callers, username \in Usernames, userAccesskey \in AccessKeys,
       withpassword \in BOOLEAN :
        /\ loginCalls[g].pc = "idle"
        /\ LoginStep(g, [loginCalls[g] EXCEPT !.pc = "challenge",
                                          !.username = username,
                                          !.userAccesskey = userAccesskey,
                                          !.withpassword = withpassword],
                     cbConnection[SharedContext])

\* doChallenge: the getchallenge request and its answer.
RaceChallengeRequest ==
    \E g \in Callers, resp \in Responses(ChallengeResults) :
        LET l == loginCalls[g]
            c == docbCall("GET", [operation |-> "getchallenge",
                                  username |-> l.username], resp)
        IN  /\ l.pc = "challenge"
            /\ LoginStep(g,
                         IF c.e = Nil /\ Success(c.dat)
                         THEN [l EXCEPT !.pc = "storeChallenge",
                                        !.challenge = c.dat.result]
                         ELSE [l EXCEPT !.pc = "done", !.ret = FALSE, !.err = c.e],
                         cbConnection[SharedContext])

\* doChallenge: the next of its three assignments to the session.
RaceChallengeStore ==
    \E g \in Callers :
        LET l == loginCalls[g]
            field == ChallengeFields[l.stored + 1]
        IN  /\ l.pc = "storeChallenge"
            /\ LoginStep(g,
                         IF l.stored + 1 = Len(ChallengeFields)
                         THEN [l EXCEPT !.pc = "login", !.stored = 0]
                         ELSE [l EXCEPT !.stored = l.stored + 1],
                         [cbConnection[SharedContext] EXCEPT
                              ![field] = ChallengeValue(l, field)])

\* DoLogin: the accessKey from the token the session holds now, the login
\* request and its answer.
RaceLoginRequest ==
    \E g \in Callers, resp \in Responses(LoginResults) :
        LET l == loginCalls[g]
            key == accessKey(cbConnection[SharedContext].token,
                             l.userAccesskey, l.withpassword)
            c == docbCall("POST", [operation |-> "login", username |-> l.username,
                                   accessKey |-> key], resp)
            failed == wserr(c.dat, c.e, FALSE)
        IN  /\ l.pc = "login"
            /\ LoginStep(g,
                         IF c.e = Nil /\ Success(c.dat)
                         THEN [l EXCEPT !.pc = "storeLogin", !.sent = key,
                                        !.login = c.dat.result]
                         ELSE [l EXCEPT !.pc = "done", !.sent = key,
                                        !.ret = failed.ret, !.err = failed.err,
                                        !.panic = failed.panic],
                         cbConnection[SharedContext])

\* DoLogin: the next of its four assignments to the session; it returns true
\* after the last.
RaceLoginStore ==
    \E g \in Callers :
        LET l == loginCalls[g]
            field == LoginFields[l.stored + 1]
        IN  /\ l.pc = "storeLogin"
            /\ LoginStep(g,
                         IF l.stored + 1 = Len(LoginFields)
                         THEN [l EXCEPT !.pc = "done", !.stored = 0, !.ret = TRUE]
                         ELSE [l EXCEPT !.stored = l.stored + 1],
                         [cbConnection[SharedContext] EXCEPT
                              ![field] = LoginValue(l, field)])

RaceNext ==
    \/ RaceCallDoLogin
    \/ RaceChallengeRequest
    \/ RaceChallengeStore
    \/ RaceLoginRequest
    \/ RaceLoginStore

RaceSpec == Init /\ [][RaceNext]_vars

---------------------------------------------------------------------------
(* Properties *)

\* How a request was answered.
IsSuccess(resp) == resp.kind = "json" /\ Success(resp.dat)
IsTransportError(resp) == resp.kind = "transport"
IsDecodeError(resp) == resp.kind = "decode"
IsRemoteError(resp) ==
    resp.kind = "json" /\ ~Success(resp.dat) /\ "error" \in DOMAIN resp.dat

\* The text the remote error of an answer is to be reported with.
RemoteErrorText(resp) == resp.dat.error.code \o ": " \o resp.dat.error.message

\* The operation named by the i-th request of the last call.
SentOperation(i) == call.reqs[i].params.operation

\* The zero or empty value each public function returns beside an error.
ZeroResult(op) ==
    CASE op \in {"DoLogin", "DoLogout", "DoDelete", "DoSetRelated"} -> FALSE
      [] op = "DoLoginPage" -> ""
      [] OTHER -> EmptyMap

\* s has ": " in it, as every text of the form code ": " message has.
HasSeparator(s) == \E i \in 1..(Len(s) - 1) : SubSeq(s, i, i + 1) = ": "

\* The map a JSON text of MarshalMap stands for.
JSONValues == {"", "A", "19x1", "19x2"}
JSONMaps ==
    UNION {[keys -> JSONValues] : keys \in SUBSET {"assigned_user_id", "lastname"}}
Unmarshal(text) ==
    IF \E m \in JSONMaps : MarshalMap(m) = text
    THEN CHOOSE m \in JSONMaps : MarshalMap(m) = text
    ELSE [invalid |-> text]

\* C1: every DoLogin call sends the getchallenge request first, a login
\* request only after it, and when the challenge fails (transport error,
\* decode error or success=false) it returns false and no login request
\* was sent.
C1_ChallengeBeforeLogin ==
    call.op = "DoLogin" =>
        /\ Len(call.reqs) >= 1
        /\ SentOperation(1) = "getchallenge"
        /\ \A i \in DOMAIN call.reqs : SentOperation(i) = "login" => i > 1
        /\ ~IsSuccess(call.resps[1]) =>
              /\ \A i \in DOMAIN call.reqs : SentOperation(i) # "login"
              /\ ~call.panic
              /\ call.ret = FALSE

\* A DoLogin whose challenge was answered with success=false.
C1_Witness ==
    /\ call.op = "DoLogin"
    /\ call.resps[1].kind = "json"
    /\ ~Success(call.resps[1].dat)

\* C2: the session id of a context is empty unless some earlier DoLogin on
\* that context returned true.
C2_SessionOnlyAfterLogin ==
    \A c \in Contexts : cbConnection[c].sessionid # "" => c \in loggedIn

\* A DoLogin whose challenge succeeded and whose login failed, on a context
\* that never logged in: the token is stored and the session id is empty.
C2_Witness ==
    /\ call.op = "DoLogin"
    /\ call.ctx \notin loggedIn
    /\ cbConnection[call.ctx].token # ""
    /\ cbConnection[call.ctx].sessionid = ""

\* C3, as claimed: whenever DoLogin returns false, every field of the
\* session has the value it had before the call.
C3_NoPartialUpdate ==
    (call.op = "DoLogin" /\ ~call.panic /\ call.ret = FALSE) =>
        cbConnection[call.ctx] = call.pre

\* C4, as claimed: whenever a request of a public function is answered with
\* success=false and an error object, the function returns the error
\* code ": " message.
C4_RemoteErrorSurfaced ==
    \A i \in DOMAIN call.resps :
        IsRemoteError(call.resps[i]) =>
            ~call.panic /\ call.err = RemoteErrorText(call.resps[i])

\* C4, amended: the same for every request but the getchallenge request of
\* DoLogin; when that one is answered with success=false and an error
\* object, DoLogin returns false and a nil error.
C4_RemoteErrorSurfacedButChallenge ==
    \A i \in DOMAIN call.resps :
        IsRemoteError(call.resps[i]) =>
            /\ ~call.panic
            /\ SentOperation(i) # "getchallenge" =>
                  /\ call.err = RemoteErrorText(call.resps[i])
                  /\ call.err # Nil
            /\ SentOperation(i) = "getchallenge" =>
                  call.ret = FALSE /\ call.err = Nil

\* A DoLogin whose login request was answered with success=false and an
\* error object.
C4_Witness ==
    /\ call.op = "DoLogin"
    /\ Len(call.resps) = 2
    /\ IsRemoteError(call.resps[2])

\* C5, as claimed: no request other than getchallenge and login is sent
\* while the session id is empty.
C5_SessionRequired ==
    (call.op \notin {"none", "DoLogin"} /\ Len(call.reqs) > 0) =>
        call.pre.sessionid # ""

\* C6: a DoLogin call sends at most one login request, after its own
\* successful challenge, and the accessKey of that request is derived from
\* the token that challenge returned; so the token of one challenge goes
\* into one login request at most.
C6_TokenOfOwnChallenge ==
    call.op = "DoLogin" =>
        LET logins == {i \in DOMAIN call.reqs : SentOperation(i) = "login"}
        IN  /\ Cardinality(logins) <= 1
            /\ \A i \in logins :
                  /\ i = 2
                  /\ SentOperation(1) = "getchallenge"
                  /\ IsSuccess(call.resps[1])
                  /\ call.reqs[i].params.accessKey =
                        accessKey(call.resps[1].dat.result.token,
                                  call.args.userAccesskey, call.args.withpassword)

\* A DoLogin on a session that held another token before: its login request
\* failed, so the new token stays in the session.
C6_Witness ==
    /\ call.op = "DoLogin"
    /\ Len(call.reqs) = 2
    /\ call.pre.token # ""
    /\ call.pre.token # call.resps[1].dat.result.token
    /\ ~IsSuccess(call.resps[2])

\* C7: the element DoCreate, DoUpdate and DoRevise send has the caller's
\* assigned_user_id when the caller's map has that key (whatever its value)
\* and the session's user id when it has not; every other key is sent with
\* the caller's value and no other key is sent.
C7_AssignedUserDefault ==
    call.op \in {"DoCreate", "DoUpdate", "DoRevise"} =>
        LET given == call.args.valuemap
            sent == Unmarshal(call.reqs[1].params.element)
        IN  /\ DOMAIN sent = (DOMAIN given) \cup {"assigned_user_id"}
            /\ sent["assigned_user_id"] =
                  IF "assigned_user_id" \in DOMAIN given
                  THEN given["assigned_user_id"] ELSE call.pre.userid
            /\ \A k \in (DOMAIN given) \ {"assigned_user_id"} : sent[k] = given[k]

\* A DoUpdate of a logged-in session with a map that has no assigned_user_id.
C7_Witness ==
    /\ call.op = "DoUpdate"
    /\ "assigned_user_id" \notin DOMAIN call.args.valuemap
    /\ call.pre.userid # ""

\* C8, as claimed: after a successful DoQuery the values GetResultColumns
\* returns are the keys of the first row of the result, one entry for each,
\* and none when the result has no rows.
C8_ColumnsOfLastQuery ==
    (call.op = "DoQuery" /\ ~call.panic /\ call.err = Nil) =>
        LET columns == GetResultColumns(call.ctx)
            keys == IF Len(call.ret) > 0 THEN DOMAIN call.ret[1] ELSE {}
        IN  /\ Range(columns) = keys
            /\ Cardinality(DOMAIN columns) = Cardinality(keys)

\* C9: DoDelete returns (true, nil) exactly when the answer is a success
\* envelope with result.status = "successful"; for a success envelope with
\* another status it returns false and the local error, which has not the
\* form code ": " message, and it does not panic on the missing error object.
C9_DeleteStatus ==
    call.op = "DoDelete" =>
        LET resp == call.resps[1]
        IN  /\ (IsSuccess(resp) /\ resp.dat.result.status = "successful") =>
                  ~call.panic /\ call.ret = TRUE /\ call.err = Nil
            /\ (IsSuccess(resp) /\ resp.dat.result.status # "successful") =>
                  /\ ~call.panic
                  /\ call.ret = FALSE
                  /\ call.err = "Unexpected DELETE error"
                  /\ ~HasSeparator(call.err)
            /\ ~IsSuccess(resp) =>
                  call.panic \/ (call.ret = FALSE /\ call.err # Nil)

\* A DoDelete answered with success=true and the status "failed".
C9_Witness ==
    /\ call.op = "DoDelete"
    /\ IsSuccess(call.resps[1])
    /\ call.resps[1].dat.result.status = "failed"

\* C10: a public function sends one request at most, DoLogin two at most
\* (one getchallenge, then one login); a request that fails in transport is
\* the last one of the call, and the call returns that error and its zero
\* result.
C10_TransportErrorNotRetried ==
    call.op # "none" =>
        /\ Len(call.reqs) <= IF call.op = "DoLogin" THEN 2 ELSE 1
        /\ Len(call.reqs) = 2 =>
              SentOperation(1) = "getchallenge" /\ SentOperation(2) = "login"
        /\ \A i \in DOMAIN call.resps :
              IsTransportError(call.resps[i]) =>
                  /\ i = Len(call.reqs)
                  /\ ~call.panic
                  /\ call.err = call.resps[i].err
                  /\ call.ret = ZeroResult(call.op)

\* A DoLogin whose challenge succeeded and whose login request failed in
\* transport.
C10_Witness ==
    /\ call.op = "DoLogin"
    /\ Len(call.resps) = 2
    /\ IsTransportError(call.resps[2])

\* The md5 digests of the texts token + key of the model, as md5sum prints
\* them.
KnownDigests ==
    "t1k1" :> "8684253f2e8ea3d7abdd3874b63accee"
    @@ "t2k1" :> "10f2dc6a947880be07b93bcb4a4fd6a2"

\* s is written with the digits of lower-case hex only.
RECURSIVE IsLowerHex(_)
IsLowerHex(s) ==
    \/ s = ""
    \/ /\ \E i \in 1..16 : SubSeq(s, 1, 1) = SubSeq("0123456789abcdef", i, i)
       /\ IsLowerHex(SubSeq(s, 2, Len(s)))

\* C11: the login request of a DoLogin carries, with withpassword=false, the
\* 32 lower-case hex digits of the md5 digest of token + key and, with
\* withpassword=true, token + key as they are, the token being the one its
\* challenge returned and the session now holds; what it carries in one mode
\* is not what it would carry in the other.
C11_AccessKeyModes ==
    (call.op = "DoLogin" /\ Len(call.reqs) = 2) =>
        LET token == call.resps[1].dat.result.token
            plain == token \o call.args.userAccesskey
            sent == call.reqs[2].params.accessKey
        IN  /\ cbConnection[call.ctx].token = token
            /\ plain \in DOMAIN KnownDigests
            /\ call.args.withpassword =>
                  sent = plain /\ sent # KnownDigests[plain]
            /\ ~call.args.withpassword =>
                  /\ sent = KnownDigests[plain]
                  /\ Len(sent) = 32
                  /\ IsLowerHex(sent)
                  /\ sent # plain

\* A DoLogin with withpassword=false that sent its login request.
C11_Witness ==
    /\ call.op = "DoLogin"
    /\ Len(call.reqs) = 2
    /\ ~call.args.withpassword
    /\ Len(call.reqs[2].params.accessKey) = 32

\* s is made of spaces and semicolons only.
RECURSIVE OnlySpacesAndSemicolons(_)
OnlySpacesAndSemicolons(s) ==
    \/ s = ""
    \/ /\ SubSeq(s, 1, 1) \in {" ", ";"}
       /\ OnlySpacesAndSemicolons(SubSeq(s, 2, Len(s)))

\* What DoQuery sent for query is a part of query and one ";": what is
\* before and after the part in query are spaces and semicolons only, and
\* the part neither begins nor ends with one.
SentTrimmed(query, sent) ==
    \E i \in 1..(Len(query) + 1), j \in 0..Len(query) :
        /\ i <= j + 1
        /\ sent = SubSeq(query, i, j) \o ";"
        /\ OnlySpacesAndSemicolons(SubSeq(query, 1, i - 1))
        /\ OnlySpacesAndSemicolons(SubSeq(query, j + 1, Len(query)))
        /\ i <= j =>
              /\ SubSeq(query, i, i) \notin {" ", ";"}
              /\ SubSeq(query, j, j) \notin {" ", ";"}

\* C12: DoQuery sends the caller's query without its leading and trailing
\* spaces and semicolons and with one ";" at its end; a DoQuery of the query
\* of the call before it followed by semicolons and spaces sends the same
\* string.
C12_QueryTrimmed ==
    /\ [](call.op = "DoQuery" =>
            SentTrimmed(call.args.query, call.reqs[1].params.query))
    /\ [][(/\ call.op = "DoQuery"
           /\ call'.op = "DoQuery"
           /\ \E k \in 0..Len(call'.args.query) :
                 /\ SubSeq(call'.args.query, 1, k) = call.args.query
                 /\ OnlySpacesAndSemicolons(
                        SubSeq(call'.args.query, k + 1, Len(call'.args.query))))
          => call'.reqs[1].params.query = call.reqs[1].params.query]_vars

\* A DoQuery of a query that begins and ends with a space or a semicolon and
\* has a semicolon or a space inside what is sent.
C12_Witness ==
    /\ call.op = "DoQuery"
    /\ call.args.query = "; a;"
    /\ call.reqs[1].params.query = "a;"

\* C13, as claimed: a call made for one context changes neither the session
\* of another context, nor its recorded columns, nor the endpoint its
\* requests are sent to.
C13_ContextsIndependent ==
    [][\A d \in ctxs :
          d # call'.ctx =>
              /\ cbConnection'[d] = cbConnection[d]
              /\ queryResultColumns'[d] = queryResultColumns[d]
              /\ Endpoint(d)' = Endpoint(d)]_vars

\* The call returned true.
ReturnedTrue(c) == ~c.panic /\ c.ret = TRUE

C15_ChallengeFailure ==
    call.op = "DoLogin" =>
        LET resp == call.resps[1]
            dc == doChallenge(call.pre, call.args.username, resp)
        IN  /\ (resp.kind = "json" /\ ~Success(resp.dat)) =>
                  /\ ~dc.ok /\ dc.err = Nil
                  /\ ~call.panic
                  /\ call.ret = FALSE
                  /\ call.err = Nil
            /\ (IsTransportError(resp) \/ IsDecodeError(resp)) =>
                  /\ ~dc.ok /\ dc.err = resp.err
                  /\ ~call.panic
                  /\ call.ret = FALSE
                  /\ call.err = resp.err
                  /\ call.err # Nil

\* A DoLogin whose getchallenge request was answered with success=false and
\* an error object, and that returned a nil error.
C15_Witness ==
    /\ call.op = "DoLogin"
    /\ IsRemoteError(call.resps[1])
    /\ call.err = Nil

\* The DoLogin of caller g returned true.
LoggedIn(g) == loginCalls[g].pc = "done" /\ ~loginCalls[g].panic /\ loginCalls[g].ret = TRUE

\* C16, as claimed: the accessKey a DoLogin sent is derived from the token
\* its own challenge returned, and when both calls have returned and one of
\* them returned true, the service user, service key, session id and user id
\* of the session are those of one call that returned true.
C16_InterleavedLogins ==
    /\ \A g \in Callers :
          loginCalls[g].pc \in {"storeLogin", "done"} /\ loginCalls[g].sent # "" =>
              loginCalls[g].sent = accessKey(loginCalls[g].challenge.token,
                                         loginCalls[g].userAccesskey,
                                         loginCalls[g].withpassword)
    /\ ((\A g \in Callers : loginCalls[g].pc = "done")
        /\ (\E g \in Callers : LoggedIn(g))) =>
          \E g \in Callers :
              /\ LoggedIn(g)
              /\ cbConnection[SharedContext].serviceuser = loginCalls[g].username
              /\ cbConnection[SharedContext].servicekey = loginCalls[g].userAccesskey
              /\ cbConnection[SharedContext].sessionid = loginCalls[g].login.sessionName
              /\ cbConnection[SharedContext].userid = loginCalls[g].login.userId

=============================================================================
